---- MODULE Spec2Model ----
(***************************************************************************)
(* The connection coordinator of flo's client (controller/mod.rs): the     *)
(* shared State (conn, current_session, current_game_info, id_counter) and *)
(* the three workers that drain the ws-event, stream-event and ping        *)
(* channels and run concurrently.                                          *)
(*                                                                         *)
(* A handler is cut into steps where a step of another worker in between   *)
(* can change what it does: each step holds at most one acquisition of one *)
(* of the RwLocks, and a send whose result depends on the receiver is a    *)
(* step of its own.  The recv that hands the event to the handler belongs  *)
(* to the handler's first step, and a send that reads no shared state to   *)
(* the step before it.                                                     *)
(*                                                                         *)
(* The LobbyStream (controller/stream.rs) is the environment: the phase of *)
(* the stream owned by the stored LobbyConn decides which events it can    *)
(* send; a stream whose LobbyConn was replaced or removed can still        *)
(* deliver a late Disconnected or ConnectionError.                         *)
(*                                                                         *)
(* Option<T> is a sequence of length at most one: None is << >> and        *)
(* Some(v) is <<v>>.                                                       *)
(***************************************************************************)
EXTENDS Integers, Sequences, FiniteSets, TLC

VARIABLES
  id_counter,          \* State::id_counter
  conn,                \* State::conn: Option<LobbyConn>
  current_session,     \* State::current_session: Option<PlayerSession>
  current_game_info,   \* State::current_game_info: Option<LobbyGameInfo>
  stream,              \* the LobbyStream owned by the LobbyConn in conn
  session_src,         \* history: id of the LobbyConn whose stream sent the session
  ws,                  \* the ws-event worker: pc, event, locals, what it sent
  sw,                  \* the stream-event worker
  pw,                  \* the ping worker
  ncall,               \* NodeStream::connect: where the call is, what it returned
  nworker,             \* NodeStream::worker: the spawned task
  nevents,             \* the NodeStreamEvents sent on event_sender, in order
  outgoing,            \* the outgoing-frame channel of the NodeStream
  wire,                \* the frames written to the node socket by the worker
  nowner,              \* the NodeStream value returned by connect (its scope)
  peer,                \* PeerStream: closed, and the frames queued on receiver
  psock,               \* PeerStream::stream: what the socket has ready
  pitems,              \* what poll_next has returned Ready with, in order
  phandle              \* the PeerHandle: whether it lives, how much it sent

\* The NodeStream (node/stream.rs), which runs apart from the coordinator.
nvars == <<ncall, nworker, nevents, outgoing, wire, nowner>>

\* The PeerStream of the node (crates/node/src/game/peer.rs).
pvars == <<peer, psock, pitems, phandle>>

\* The coordinator (controller/mod.rs).
cvars == <<id_counter, conn, current_session, current_game_info, stream,
           session_src, ws, sw, pw>>

vars == <<id_counter, conn, current_session, current_game_info, stream,
          session_src, ws, sw, pw, nvars, pvars>>

shared == <<id_counter, conn, current_session, current_game_info>>

----------------------------------------------------------------------------
(* Bounds and input sets *)

MaxConn == 2          \* number of ConnectLobby requests in one run
MaxNodeFrames == 3    \* frames the node sends to one NodeStream after the handshake
MaxHandleSends == 2   \* frames the NodeStreamHandles enqueue on one NodeStream
MaxPeerSends == 2     \* frames sent through the PeerHandle of one PeerStream
MaxPeerArrivals == 2  \* frames and errors that arrive on one PeerStream's socket
MaxPeerPolls == 4     \* polls of one PeerStream that return Ready
MaxPeerQueue == 2     \* room of the PeerHandle's channel in the model

OutgoingCapacity == 10   \* channel(10) of NodeStream::connect

None == << >>
Some(v) == <<v>>
IsSome(o) == o # << >>
Unwrap(o) == o[1]

GameIds == {10, 11}
NodeIds == {3}
Pings == {None, Some(42)}

FullSessions ==
  { [player_id |-> 7, player_name |-> "p7", game_id |-> None, status |-> "Idle"],
    [player_id |-> 8, player_name |-> "p8", game_id |-> Some(10), status |-> "Joined"] }

PartialUpdates ==
  { [game_id |-> Some(10), status |-> "InGame"],
    [game_id |-> None, status |-> "Idle"] }

GameInfos == { [game_id |-> g] : g \in GameIds }

UiFrames == { [type |-> "UiFrame"] }

\* What the platform collaborator answers: the local game version (None:
\* not located) and the map checksum (None: open or checksum failure).
War3Versions == {None, Some("1.32")}
MapSha1s == {None, Some("sha1")}

----------------------------------------------------------------------------
(* Values sent on the outgoing channels.  A worker's out is the sequence of *)
(* sends made by the handler it is running (or ran last).                   *)

\* event_sender.send_or_log_as_error(ControllerEvent::..)
OutEvent(ev) == [chan |-> "event", ev |-> ev]
\* ws_sender.send(OutgoingMessage::..) on the ws sender of LobbyConn `to`
OutUi(to, msg) == [chan |-> "ui", to |-> to, msg |-> msg]
\* frame_sender.send(frame) on the stream of LobbyConn `to`; ok is the result
OutFrame(to, frame, ok) == [chan |-> "frame", to |-> to, frame |-> frame, ok |-> ok]

DisconnectUnknown == [type |-> "Disconnect", reason |-> "Unknown"]

----------------------------------------------------------------------------
(* LobbyConn and LobbyStream *)

\* LobbyConn::new: the id; its ws_sender and its stream are named by the id.
LobbyConn_new(id) == [id |-> id]

\* LobbyStream::new: the connection attempt runs in the spawned worker.
LobbyStream_new == [phase |-> "connecting", game_id |-> None]

NoStream == [phase |-> "none", game_id |-> None]

\* LobbyStream::current_game_id
current_game_id(s) == s.game_id

NoEvent == [type |-> "none"]

\* A worker between two events.  evt is the event of the handler that is
\* running or ran last, out what that handler has sent so far, held the
\* guards on the cells conn, current_session, current_game_info that the
\* worker holds where it stands.
WsIdle == [pc |-> "idle", evt |-> NoEvent, senders |-> None, frame |-> None,
           held |-> {}, out |-> << >>]
SwIdle == [pc |-> "idle", evt |-> NoEvent, senders |-> None, frame |-> None,
           info |-> None, version |-> None, storage |-> None, current_id |-> None,
           removed |-> None, held |-> {},
           log |-> None, out |-> << >>]
PwIdle == [pc |-> "idle", evt |-> NoEvent, state |-> None, held |-> {},
           out |-> << >>]

\* NodeStream::connect has been called and nothing has happened yet.
NodeInit ==
  /\ ncall = [pc |-> "connect", reply |-> None, result |-> None]
  /\ nworker = [pc |-> "unspawned", initial_status |-> None, pending |-> None,
                brk |-> FALSE, frames |-> 0, flushed |-> FALSE]
  /\ nevents = << >>
  /\ outgoing = [queue |-> << >>, closed |-> FALSE, sends |-> 0]
  /\ wire = << >>
  /\ nowner = "none"

\* PeerStream::new: closed is false, the channel is empty.
PeerInit ==
  /\ peer = [player_id |-> 7, closed |-> FALSE, receiver |-> << >>]
  /\ psock = [avail |-> << >>, eof |-> FALSE, arrived |-> 0]
  /\ pitems = << >>
  /\ phandle = [alive |-> TRUE, sends |-> 0]

Init ==
  /\ id_counter = 0
  /\ conn = None
  /\ current_session = None
  /\ current_game_info = None
  /\ stream = NoStream
  /\ session_src = None
  /\ ws = WsIdle
  /\ sw = SwIdle
  /\ pw = PwIdle
  /\ NodeInit
  /\ PeerInit

----------------------------------------------------------------------------
(* The reader-writer locks of the three cells *)

Cells == {"conn", "current_session", "current_game_info"}

\* The guards held on a cell by the three workers.
Guards(cell) == { g \in ws.held \cup sw.held \cup pw.held : g[1] = cell }

\* RwLock::read returns at once when no write guard is held, RwLock::write
\* when no guard is held; otherwise the calling thread blocks.
CanRead(cell) == <<cell, "write">> \notin Guards(cell)
CanWrite(cell) == Guards(cell) = {}

\* cell.read() and cell.write(): worker w holds the guard.
rwlock_read(w, cell) == [w EXCEPT !.held = @ \cup {<<cell, "read">>}]
rwlock_write(w, cell) == [w EXCEPT !.held = @ \cup {<<cell, "write">>}]

\* The guard goes out of scope: at the end of the statement that took it as
\* a temporary, or of the block or function that bound it.
guard_drop(w, cell) == [w EXCEPT !.held = { g \in @ : g[1] # cell }]

----------------------------------------------------------------------------
(* State::send_frame_or_disconnect_ws, run by worker record w *)

\* The senders cloned under the read lock of conn: the id of the LobbyConn
\* whose ws_sender and frame sender they are, None when conn is None.
sfd_senders(c) == IF IsSome(c) THEN Some(Unwrap(c).id) ELSE None

\* A send_frame_or_disconnect_ws that binds the read guard and sends while
\* borrowing the senders from it.
sfd_read_holding_guard(w, c, f) ==
  [rwlock_read(w, "conn") EXCEPT
     !.frame = Some(f),
     !.senders = sfd_senders(c),
     !.pc = IF IsSome(sfd_senders(c)) THEN "sfd_send" ELSE "idle"]

\* let senders = self.conn.read().as_ref().map(..): the guard is a temporary
\* of the let statement.  With no conn the frame is discarded.
sfd_read(w, c, f) ==
  guard_drop([rwlock_read(w, "conn") EXCEPT
                !.frame = Some(f),
                !.senders = sfd_senders(c),
                !.pc = IF IsSome(sfd_senders(c)) THEN "sfd_send" ELSE "idle"],
             "conn")

\* A send whose failure is not told to the UI.
sfd_send_ignoring_failure(w, ok) ==
  [w EXCEPT !.out = Append(@, OutFrame(Unwrap(w.senders), Unwrap(w.frame), ok)),
            !.pc = "idle"]

\* frame_sender.send(frame).await with result ok.
sfd_send(w, ok) ==
  [w EXCEPT !.out = Append(@, OutFrame(Unwrap(w.senders), Unwrap(w.frame), ok)),
            !.pc = IF ok THEN "idle" ELSE "sfd_disconnect"]

\* ws_sender.send(Disconnect { reason: Unknown }).await.ok()
sfd_disconnect(w) ==
  [w EXCEPT !.out = Append(@, OutUi(Unwrap(w.senders), DisconnectUnknown)),
            !.pc = "idle"]

\* The results a send on the frame sender of LobbyConn `to` can have: it fails
\* only when the receiving LobbyStream worker has ended, which it has not
\* while that LobbyConn is stored in conn and its stream has not terminated.
FrameSendResults(to) ==
  IF IsSome(conn) /\ Unwrap(conn).id = to /\ stream.phase # "closed"
  THEN {TRUE} ELSE {TRUE, FALSE}

----------------------------------------------------------------------------
(* The ws-event worker: State::handle_ws_event *)

\* A load in place of the fetch_add: the counter is read and not advanced.
fetch_add_not_advancing(counter) == [prev |-> counter, next |-> counter]

\* id_counter.fetch_add(1, SeqCst): the value returned and the value stored.
fetch_add(counter) == [prev |-> counter, next |-> counter + 1]

\* WsEvent::ConnectLobbyEvent: id_counter.fetch_add(1), LobbyConn::new, store.
\* The previous LobbyConn, if any, is dropped by the assignment.
WsConnectLobby ==
  /\ ws.pc = "idle"
  /\ id_counter < MaxConn
  /\ CanWrite("conn")
  /\ conn' = Some(LobbyConn_new(fetch_add(id_counter).prev))
  /\ id_counter' = fetch_add(id_counter).next
  /\ stream' = LobbyStream_new
  /\ ws' = guard_drop(rwlock_write([WsIdle EXCEPT !.evt = [type |-> "ConnectLobby"]],
                                   "conn"), "conn")
  /\ UNCHANGED <<current_session, current_game_info, session_src, sw, pw, nvars, pvars>>

\* WsEvent::LobbyFrameEvent(frame): send_frame_or_disconnect_ws, up to the
\* release of the read lock.
WsLobbyFrame ==
  /\ ws.pc = "idle"
  /\ CanRead("conn")
  /\ \E f \in UiFrames :
       ws' = sfd_read([WsIdle EXCEPT !.evt = [type |-> "LobbyFrame", frame |-> f]],
                      conn, f)
  /\ UNCHANGED <<shared, stream, session_src, sw, pw, nvars, pvars>>

WsSfdSend ==
  /\ ws.pc = "sfd_send"
  /\ \E ok \in FrameSendResults(Unwrap(ws.senders)) : ws' = sfd_send(ws, ok)
  /\ UNCHANGED <<shared, stream, session_src, sw, pw, nvars, pvars>>

WsSfdDisconnect ==
  /\ ws.pc = "sfd_disconnect"
  /\ ws' = sfd_disconnect(ws)
  /\ UNCHANGED <<shared, stream, session_src, sw, pw, nvars, pvars>>

\* WsEvent::WorkerErrorEvent(err): forwarded outward.
WsWorkerError ==
  /\ ws.pc = "idle"
  /\ ws' = [WsIdle EXCEPT !.evt = [type |-> "WorkerError"],
                          !.out = <<OutEvent([type |-> "WsWorkerError"])>>]
  /\ UNCHANGED <<shared, stream, session_src, sw, pw, nvars, pvars>>

WsNext ==
  \/ WsConnectLobby
  \/ WsLobbyFrame
  \/ WsSfdSend
  \/ WsSfdDisconnect
  \/ WsWorkerError

----------------------------------------------------------------------------
(* The events a LobbyStream sends on the stream-event channel *)

\* The stream of the LobbyConn in conn is in one of the phases `phases`.
CurrentStreamIn(phases) == IsSome(conn) /\ stream.phase \in phases

\* Disconnected(id) and ConnectionError(id, _) end a stream.  They come from
\* the stream of the current LobbyConn, or late from the stream of a
\* LobbyConn that was replaced or removed.
FromCurrent(id) ==
  IsSome(conn) /\ Unwrap(conn).id = id /\ stream.phase \notin {"none", "closed"}
FromEarlier(id) ==
  id \in 0..(id_counter - 1) /\ (IsSome(conn) => Unwrap(conn).id # id)

StreamEnded(id) ==
  IF FromCurrent(id) THEN [stream EXCEPT !.phase = "closed"] ELSE stream

----------------------------------------------------------------------------
(* The stream-event worker: State::handle_stream_event *)

\* ControllerStreamEvent::ConnectedEvent
SwConnected ==
  /\ sw.pc = "idle"
  /\ CurrentStreamIn({"connecting"})
  /\ stream' = [stream EXCEPT !.phase = "connected"]
  /\ sw' = [SwIdle EXCEPT !.evt = [type |-> "Connected"],
                          !.out = <<OutEvent([type |-> "Connected"])>>]
  /\ UNCHANGED <<shared, session_src, ws, pw, nvars, pvars>>

\* remove_conn without the comparison of ids: it takes whatever conn is stored.
remove_conn_any_id(c, id) == [conn |-> None, ret |-> c]

\* remove_conn that compares the ids and then does not take the conn.
remove_conn_no_take(c, id) == [conn |-> c, ret |-> None]

\* State::remove_conn: the conn left in the cell, and the conn returned.
remove_conn(c, id) ==
  IF IsSome(c) /\ Unwrap(c).id = id
  THEN [conn |-> None, ret |-> c]
  ELSE [conn |-> c, ret |-> None]

\* remove_conn(id) followed by the forward of ControllerEvent::Disconnected.
\* current_id is remove_conn's local: the id of the conn it found.
RemoveConnAndForward(id) ==
  LET r == remove_conn(conn, id) IN
  /\ CanWrite("conn")
  /\ conn' = r.conn
  /\ stream' = IF IsSome(r.ret) THEN NoStream ELSE stream
  /\ sw' = guard_drop(
             [rwlock_write(sw, "conn") EXCEPT
                !.pc = "idle",
                !.current_id = IF IsSome(conn) THEN Some(Unwrap(conn).id) ELSE None,
                !.removed = Some(IsSome(r.ret)),
                !.out = Append(@, OutEvent([type |-> "Disconnected"]))],
             "conn")

\* ControllerStreamEvent::DisconnectedEvent(id): current_session.write().take()
SwDisconnected ==
  /\ sw.pc = "idle"
  /\ \E id \in 0..(id_counter - 1) :
       /\ FromCurrent(id) \/ FromEarlier(id)
       /\ stream' = StreamEnded(id)
       /\ sw' = guard_drop(
                  rwlock_write([SwIdle EXCEPT !.evt = [type |-> "Disconnected", id |-> id],
                                              !.pc = "remove_conn"],
                               "current_session"),
                  "current_session")
  /\ CanWrite("current_session")
  /\ current_session' = None
  /\ session_src' = None
  /\ UNCHANGED <<id_counter, conn, current_game_info, ws, pw, nvars, pvars>>

\* ... then remove_conn(id) and the forward.
SwDisconnectedRemove ==
  /\ sw.pc = "remove_conn"
  /\ RemoveConnAndForward(sw.evt.id)
  /\ UNCHANGED <<id_counter, current_session, current_game_info, session_src, ws, pw, nvars, pvars>>

\* ControllerStreamEvent::ConnectionErrorEvent(id, err): remove_conn(id) and
\* the forward.
SwConnectionError ==
  /\ sw.pc = "idle"
  /\ \E id \in 0..(id_counter - 1) :
       /\ FromCurrent(id) \/ FromEarlier(id)
       /\ LET r == remove_conn(conn, id) IN
          /\ CanWrite("conn")
          /\ conn' = r.conn
          /\ stream' = IF IsSome(r.ret) THEN NoStream ELSE stream
          /\ sw' = guard_drop(
                     [rwlock_write(SwIdle, "conn") EXCEPT
                        !.evt = [type |-> "ConnectionError", id |-> id],
                        !.current_id = IF IsSome(conn) THEN Some(Unwrap(conn).id) ELSE None,
                        !.removed = Some(IsSome(r.ret)),
                        !.log = Some("server connection"),
                        !.out = <<OutEvent([type |-> "Disconnected"])>>],
                     "conn")
  /\ UNCHANGED <<id_counter, current_session, current_game_info, session_src, ws, pw, nvars, pvars>>

\* PlayerSessionUpdateEvent::Full(session)
SwSessionFull ==
  /\ sw.pc = "idle"
  /\ CurrentStreamIn({"connected"})
  /\ CanWrite("current_session")
  /\ \E s \in FullSessions :
       /\ current_session' = Some(s)
       /\ stream' = [phase |-> "session", game_id |-> s.game_id]
       /\ sw' = guard_drop(
                  rwlock_write([SwIdle EXCEPT !.evt = [type |-> "SessionFull",
                                                       session |-> s]],
                               "current_session"),
                  "current_session")
  /\ session_src' = Some(Unwrap(conn).id)
  /\ UNCHANGED <<id_counter, conn, current_game_info, ws, pw, nvars, pvars>>

\* A Partial arm that builds a session from the update when there is none.
apply_partial_promoting(session, update) ==
  IF IsSome(session)
  THEN Some([Unwrap(session) EXCEPT !.game_id = update.game_id,
                                    !.status = update.status])
  ELSE Some([player_id |-> 0, player_name |-> "", game_id |-> update.game_id,
             status |-> update.status])

\* A Partial arm that writes the status and forgets the game_id.
apply_partial_status_only(session, update) ==
  IF IsSome(session)
  THEN Some([Unwrap(session) EXCEPT !.status = update.status])
  ELSE None

\* The Partial arm's write to the session cell.
apply_partial(session, update) ==
  IF IsSome(session)
  THEN Some([Unwrap(session) EXCEPT !.game_id = update.game_id,
                                    !.status = update.status])
  ELSE None

\* PlayerSessionUpdateEvent::Partial(update)
SwSessionPartial ==
  /\ sw.pc = "idle"
  /\ CurrentStreamIn({"session"})
  /\ CanWrite("current_session")
  /\ \E u \in PartialUpdates :
       /\ current_session' = apply_partial(current_session, u)
       /\ stream' = [stream EXCEPT !.game_id = u.game_id]
       /\ sw' = guard_drop(
                  [rwlock_write(SwIdle, "current_session") EXCEPT
                     !.evt = [type |-> "SessionPartial", update |-> u],
                     !.log = IF IsSome(current_session) THEN None
                             ELSE Some("no active player session")],
                  "current_session")
  /\ UNCHANGED <<id_counter, conn, current_game_info, session_src, ws, pw, nvars, pvars>>

\* A GameInfoUpdate arm that keeps the cached game when the update is None.
game_info_update_keeping(current, gi) ==
  [cell |-> IF IsSome(gi) THEN gi ELSE current, forward |-> gi]

\* The GameInfoUpdate arm: the value written to the cell and the value
\* forwarded, both the event's game_info.
game_info_update(current, gi) == [cell |-> gi, forward |-> gi]

\* ControllerStreamEvent::GameInfoUpdateEvent(event)
SwGameInfoUpdate ==
  /\ sw.pc = "idle"
  /\ CurrentStreamIn({"session"})
  /\ \E gi \in {None} \cup { Some(g) : g \in GameInfos } :
       LET u == game_info_update(current_game_info, gi) IN
       /\ CanWrite("current_game_info")
       /\ current_game_info' = u.cell
       /\ sw' = [guard_drop(rwlock_write(SwIdle, "current_game_info"),
                            "current_game_info") EXCEPT
                   !.evt = [type |-> "GameInfoUpdate", game_info |-> gi],
                   !.out = <<OutEvent([type |-> "GameInfoUpdate",
                                       game_info |-> u.forward])>>]
  /\ UNCHANGED <<id_counter, conn, current_session, stream, session_src, ws, pw, nvars, pvars>>

\* A guard that only asks for some cached game.
game_start_guard_any_game(info, game_id) == IsSome(info)

\* handle_game_start honours the event only for the cached game.
game_start_guard(info, game_id) ==
  IsSome(info) /\ Unwrap(info).game_id = game_id

GameStartPlayerClientInfoRequest(game_id, version, sha1) ==
  [type |-> "GameStartPlayerClientInfoRequest", game_id |-> game_id,
   war3_version |-> version, map_sha1 |-> sha1]

\* ControllerStreamEvent::GameStartingEvent(event): handle_game_start up to
\* the with_storage await: the snapshot of current_game_info, the guard and
\* the platform's version.  from is the LobbyConn whose stream sent the
\* event; the event of the code does not carry it and the handler cannot
\* read it.
SwGameStarting ==
  /\ sw.pc = "idle"
  /\ CanRead("current_game_info")
  /\ CurrentStreamIn({"session"})
  /\ \E game_id \in GameIds, version \in War3Versions :
       LET w == guard_drop(
                  [rwlock_read(SwIdle, "current_game_info") EXCEPT
                     !.evt = [type |-> "GameStarting", game_id |-> game_id,
                              from |-> Unwrap(conn).id],
                     !.info = current_game_info],
                  "current_game_info")
       IN sw' = IF ~game_start_guard(current_game_info, game_id)
                THEN w
                ELSE IF version = None
                THEN [w EXCEPT !.log = Some("get client info: War3NotLocated")]
                ELSE [w EXCEPT !.pc = "with_storage", !.version = version]
  /\ UNCHANGED <<shared, stream, session_src, ws, pw, nvars, pvars>>

\* A handle_game_start that sends the request with an empty checksum when
\* the map could not be opened.
game_start_sha1_defaulting(w, c, sha1) ==
  sfd_read([w EXCEPT !.storage = Some(sha1)], c,
           GameStartPlayerClientInfoRequest(
             w.evt.game_id, Unwrap(w.version),
             IF sha1 = None THEN "" ELSE Unwrap(sha1)))

\* let sha1 = with_storage(..).await?: an Err returns from handle_game_start
\* and is logged by the caller; with the checksum the request is built and
\* send_frame_or_disconnect_ws reads conn (c).  storage is what with_storage
\* answered.
game_start_sha1(w, c, sha1) ==
  IF sha1 = None
  THEN [w EXCEPT !.pc = "idle", !.storage = Some(sha1),
                 !.log = Some("get client info: map")]
  ELSE sfd_read([w EXCEPT !.storage = Some(sha1)], c,
                GameStartPlayerClientInfoRequest(
                  w.evt.game_id, Unwrap(w.version), Unwrap(sha1)))

\* with_storage(..).await returns; on success send_frame_or_disconnect_ws
\* starts and reads conn.
SwWithStorage ==
  /\ sw.pc = "with_storage"
  /\ \E sha1 \in MapSha1s :
       /\ IsSome(sha1) => CanRead("conn")
       /\ sw' = game_start_sha1(sw, conn, sha1)
  /\ UNCHANGED <<shared, stream, session_src, ws, pw, nvars, pvars>>

SwSfdSend ==
  /\ sw.pc = "sfd_send"
  /\ \E ok \in FrameSendResults(Unwrap(sw.senders)) : sw' = sfd_send(sw, ok)
  /\ UNCHANGED <<shared, stream, session_src, ws, pw, nvars, pvars>>

SwSfdDisconnect ==
  /\ sw.pc = "sfd_disconnect"
  /\ sw' = sfd_disconnect(sw)
  /\ UNCHANGED <<shared, stream, session_src, ws, pw, nvars, pvars>>

\* A GameStarted arm that drops the event whatever the cell holds.
game_started_out_dropping(evt, info) == << >>

\* What the GameStarted arm sends outward for the game info it read.
game_started_out(evt, info) ==
  IF IsSome(info)
  THEN <<OutEvent([type |-> "GameStarted", evt |-> evt, game_info |-> Unwrap(info)])>>
  ELSE << >>

\* ControllerStreamEvent::GameStartedEvent(event)
SwGameStarted ==
  /\ sw.pc = "idle"
  /\ CanRead("current_game_info")
  /\ CurrentStreamIn({"session"})
  /\ \E game_id \in GameIds :
       LET evt == [type |-> "GameStarted", game_id |-> game_id]
           w == guard_drop([rwlock_read(SwIdle, "current_game_info") EXCEPT
                              !.evt = evt, !.info = current_game_info],
                           "current_game_info")
       IN sw' = [w EXCEPT !.out = game_started_out(evt, current_game_info),
                          !.log = IF IsSome(current_game_info) THEN None
                                  ELSE Some("game info unavailable")]
  /\ UNCHANGED <<shared, stream, session_src, ws, pw, nvars, pvars>>

SwNext ==
  \/ SwConnected
  \/ SwDisconnected
  \/ SwDisconnectedRemove
  \/ SwConnectionError
  \/ SwSessionFull
  \/ SwSessionPartial
  \/ SwGameInfoUpdate
  \/ SwGameStarting
  \/ SwWithStorage
  \/ SwSfdSend
  \/ SwSfdDisconnect
  \/ SwGameStarted

----------------------------------------------------------------------------
(* The ping worker: State::handle_ping_update *)

PingUpdates == { [node_id |-> n, ping |-> p] : n \in NodeIds, p \in Pings }

\* The snapshot taken under the read lock of conn: the ws sender and, when
\* the stream reports a game id, that id with the frame sender.
ping_state(c, s) ==
  IF IsSome(c)
  THEN Some([ws_sender |-> Unwrap(c).id,
             stream_state |-> IF IsSome(current_game_id(s))
                              THEN Some([game_id |-> Unwrap(current_game_id(s)),
                                         frame_sender |-> Unwrap(c).id])
                              ELSE None])
  ELSE None

\* An upload that does not look at the ping: a failed ping goes up as 0.
ping_upload_failed_too(update, stream_state) ==
  IF IsSome(stream_state)
  THEN Some([type |-> "GamePlayerPingMapUpdateRequest",
             game_id |-> Unwrap(stream_state).game_id,
             ping_map |-> [n \in {update.node_id} |->
                            IF IsSome(update.ping) THEN Unwrap(update.ping) ELSE 0]])
  ELSE None

\* A forward to the UI of succeeded pings only.
ping_forward_succeeded_only(update, state) ==
  IF IsSome(update.ping)
  THEN <<OutUi(state.ws_sender, [type |-> "PingUpdate", update |-> update])>>
  ELSE << >>

\* ws_sender.send(OutgoingMessage::PingUpdate(update)): what the handler
\* sends to the UI once it holds the snapshot.
ping_forward(update, state) ==
  <<OutUi(state.ws_sender, [type |-> "PingUpdate", update |-> update])>>

\* The frame to upload for an update, if any: only succeeded pings, and
\* only when joined to a game.
ping_upload(update, stream_state) ==
  IF IsSome(update.ping) /\ IsSome(stream_state)
  THEN Some([type |-> "GamePlayerPingMapUpdateRequest",
             game_id |-> Unwrap(stream_state).game_id,
             ping_map |-> [n \in {update.node_id} |-> Unwrap(update.ping)]])
  ELSE None

\* The handler up to the frame send: the snapshot, the early return when
\* there is no conn, and the forward to the UI.
PwPingUpdate ==
  /\ pw.pc = "idle"
  /\ CanRead("conn")
  /\ \E update \in PingUpdates :
       LET state == ping_state(conn, stream)
           w == guard_drop([rwlock_read(PwIdle, "conn") EXCEPT
                              !.evt = [type |-> "PingUpdate", update |-> update],
                              !.state = state],
                           "conn")
       IN pw' = IF ~IsSome(state)
                THEN w
                ELSE [w EXCEPT
                       !.out = ping_forward(update, Unwrap(state)),
                       !.pc = IF IsSome(ping_upload(update, Unwrap(state).stream_state))
                              THEN "frame_send" ELSE "idle"]
  /\ UNCHANGED <<shared, stream, session_src, ws, sw, nvars, pvars>>

\* An upload that, like send_frame_or_disconnect_ws, tells the UI when the
\* enqueue failed.
ping_frame_sent_or_disconnect(w, to, frame, ok) ==
  [w EXCEPT !.out = IF ok THEN Append(@, OutFrame(to, frame, ok))
                    ELSE @ \o <<OutFrame(to, frame, ok),
                                OutUi(Unwrap(w.state).ws_sender, DisconnectUnknown)>>,
            !.pc = "idle"]

\* let r = frame_sender.send(frame).await: an Err is logged at debug level.
ping_frame_sent(w, to, frame, ok) ==
  [w EXCEPT !.out = Append(@, OutFrame(to, frame, ok)), !.pc = "idle"]

\* frame_sender.send(frame).await; a failure is only logged.
PwFrameSend ==
  /\ pw.pc = "frame_send"
  /\ LET st == Unwrap(Unwrap(pw.state).stream_state)
         frame == Unwrap(ping_upload(pw.evt.update, Unwrap(pw.state).stream_state))
     IN \E ok \in FrameSendResults(st.frame_sender) :
          pw' = ping_frame_sent(pw, st.frame_sender, frame, ok)
  /\ UNCHANGED <<shared, stream, session_src, ws, sw, nvars, pvars>>

PwNext ==
  \/ PwPingUpdate
  \/ PwFrameSend

----------------------------------------------------------------------------

Next == WsNext \/ SwNext \/ PwNext

Spec == Init /\ [][Next]_vars

----------------------------------------------------------------------------
(* NodeStream::connect (node/stream.rs) *)

\* What the node answers to ClientConnect.  Frames of other types and
\* frames that do not decode are left out.
Accepts ==
  { [type |-> "ClientConnectAccept", game_id |-> 10, player_id |-> 7,
     game_status |-> "Created"] }
Rejects ==
  { [type |-> "ClientConnectReject", reason |-> r, message |-> "bad"] :
      r \in {"TokenInvalid", "Unknown"} }

NodeErr(kind) == [ok |-> FALSE, err |-> [kind |-> kind]]

\* A connect that takes a reject for an accept.
connect_reply_accepting(frame) ==
  [ok |-> TRUE, player_id |-> 0,
   initial_status |-> [game_id |-> 0, game_status |-> "Created"]]

\* The try_flo_packet! of connect: Accept gives (player_id, initial_status),
\* Reject returns Err(NodeConnectionRejected(reason, message)).
connect_reply(frame) ==
  IF frame.type = "ClientConnectAccept"
  THEN [ok |-> TRUE, player_id |-> frame.player_id,
        initial_status |-> [game_id |-> frame.game_id,
                            game_status |-> frame.game_status]]
  ELSE [ok |-> FALSE,
        err |-> [kind |-> "NodeConnectionRejected", reason |-> frame.reason,
                 message |-> frame.message]]

\* FloStream::connect(addr).await?
NcConnect ==
  /\ ncall.pc = "connect"
  /\ \E ok \in BOOLEAN :
       ncall' = IF ok THEN [ncall EXCEPT !.pc = "send"]
                ELSE [ncall EXCEPT !.pc = "returned", !.result = Some(NodeErr("Connect"))]
  /\ UNCHANGED <<cvars, pvars, nworker, nevents, outgoing, wire, nowner>>

\* stream.send(PacketClientConnect { .. }).await?
NcSendClientConnect ==
  /\ ncall.pc = "send"
  /\ \E ok \in BOOLEAN :
       ncall' = IF ok THEN [ncall EXCEPT !.pc = "recv"]
                ELSE [ncall EXCEPT !.pc = "returned", !.result = Some(NodeErr("Send"))]
  /\ UNCHANGED <<cvars, pvars, nworker, nevents, outgoing, wire, nowner>>

\* stream.recv_frame().await? fails.
NcRecvError ==
  /\ ncall.pc = "recv"
  /\ ncall' = [ncall EXCEPT !.pc = "returned", !.result = Some(NodeErr("Recv"))]
  /\ UNCHANGED <<cvars, pvars, nworker, nevents, outgoing, wire, nowner>>

\* The reply arrives: on Accept the channel is made, the worker is spawned
\* and the NodeStream is returned; on Reject the error is returned.
NcRecvReply ==
  /\ ncall.pc = "recv"
  /\ \E frame \in Accepts \cup Rejects :
       LET r == connect_reply(frame) IN
       /\ ncall' = [pc |-> "returned", reply |-> Some(frame),
                    result |-> Some(IF r.ok THEN [ok |-> TRUE] ELSE r)]
       /\ nworker' = IF r.ok
                     THEN [nworker EXCEPT !.pc = "initial",
                                          !.initial_status = Some(r.initial_status)]
                     ELSE nworker
       /\ nowner' = IF r.ok THEN "held" ELSE nowner
  /\ UNCHANGED <<cvars, pvars, nevents, outgoing, wire>>

----------------------------------------------------------------------------
(* NodeStream::worker *)

NodeFrames ==
  { [type |-> t] : t \in {"W3GS", "UpdateSlotClientStatus",
                          "UpdateSlotClientStatusReject", "NodeGameStatusUpdate"} }

HandleFrames == { [type |-> "UpdateSlotClientStatusRequest"], [type |-> "W3GS"] }

NodeDisconnected == [type |-> "Disconnected"]

\* A worker that starts its loop without sending the snapshot.
initial_events_none(status) == << >>

\* event_sender.send(NodeStreamEvent::GameInitialStatus(initial_status))
initial_events(status) == <<[type |-> "GameInitialStatus", status |-> status]>>

\* handle_node_frame: the event sent for a frame that is not W3GS.  It
\* returns Ok(()) after each of the three, so the loop goes on.
node_frame_event(frame) ==
  CASE frame.type = "UpdateSlotClientStatus" -> [type |-> "SlotClientStatusUpdate"]
    [] frame.type = "UpdateSlotClientStatusReject" -> NodeDisconnected
    [] frame.type = "NodeGameStatusUpdate" -> [type |-> "GameStatusUpdate"]

\* An arm that logs and goes round the loop again instead of breaking.
Break_not_leaving(w) == [w EXCEPT !.pc = "select", !.pending = None, !.brk = FALSE]

\* break, then outgoing_receiver.close()
Break(w) == [w EXCEPT !.pc = "drain", !.pending = None, !.brk = FALSE]
Closed(ch) == [ch EXCEPT !.closed = TRUE]

\* The send of GameInitialStatus before the loop.
NwSendInitial ==
  /\ nworker.pc = "initial"
  /\ nevents' = nevents \o initial_events(Unwrap(nworker.initial_status))
  /\ nworker' = [nworker EXCEPT !.pc = "select"]
  /\ UNCHANGED <<cvars, pvars, ncall, outgoing, wire, nowner>>

\* select arm scope.left(): the NodeStream was dropped.
NwScopeLeft ==
  /\ nworker.pc = "select"
  /\ nowner = "dropped"
  /\ nworker' = Break(nworker)
  /\ outgoing' = Closed(outgoing)
  /\ UNCHANGED <<cvars, pvars, ncall, nevents, wire, nowner>>

\* select arm stream.recv_frame() = Ok(frame)
NwRecvFrame ==
  /\ nworker.pc = "select"
  /\ nworker.frames < MaxNodeFrames
  /\ \E frame \in NodeFrames :
       nworker' = IF frame.type = "W3GS"
                  THEN [nworker EXCEPT !.pc = "w3gs_send", !.frames = @ + 1]
                  ELSE [nworker EXCEPT !.pc = "event_send", !.frames = @ + 1,
                                       !.pending = Some(node_frame_event(frame)),
                                       !.brk = FALSE]
  /\ UNCHANGED <<cvars, pvars, ncall, nevents, outgoing, wire, nowner>>

\* select arm stream.recv_frame() = Err(StreamClosed) or Err(err)
NwRecvError ==
  /\ nworker.pc = "select"
  /\ nworker' = [nworker EXCEPT !.pc = "event_send",
                                !.pending = Some(NodeDisconnected), !.brk = TRUE]
  /\ UNCHANGED <<cvars, pvars, ncall, nevents, outgoing, wire, nowner>>

\* w3gs_sender.send(pkt).await: the receiver took it, or is gone.
NwW3gsSend ==
  /\ nworker.pc = "w3gs_send"
  /\ \E ok \in BOOLEAN :
       /\ nworker' = IF ok THEN [nworker EXCEPT !.pc = "select"] ELSE Break(nworker)
       /\ outgoing' = IF ok THEN outgoing ELSE Closed(outgoing)
  /\ UNCHANGED <<cvars, pvars, ncall, nevents, wire, nowner>>

\* event_sender.send(event).await completes, in the loop.
NwEventSend ==
  /\ nworker.pc = "event_send"
  /\ nevents' = Append(nevents, Unwrap(nworker.pending))
  /\ nworker' = IF nworker.brk THEN Break(nworker)
                 ELSE [nworker EXCEPT !.pc = "select", !.pending = None]
  /\ outgoing' = IF nworker.brk THEN Closed(outgoing) ELSE outgoing
  /\ UNCHANGED <<cvars, pvars, ncall, wire, nowner>>

\* select arm outgoing_receiver.recv() = Some(frame), then send_frame.  The
\* arm None cannot be taken: the worker's own State holds a sender.
NwOutgoing ==
  /\ nworker.pc = "select"
  /\ outgoing.queue # << >>
  /\ outgoing' = [outgoing EXCEPT !.queue = Tail(@)]
  /\ \E ok \in BOOLEAN :
       /\ wire' = IF ok THEN Append(wire, Head(outgoing.queue)) ELSE wire
       /\ nworker' = IF ok THEN nworker
                      ELSE [nworker EXCEPT !.pc = "event_send",
                                           !.pending = Some(NodeDisconnected),
                                           !.brk = TRUE]
  /\ UNCHANGED <<cvars, pvars, ncall, nevents, nowner>>

\* while let Some(frame) = outgoing_receiver.recv().await { send_frame.ok() }
NwDrain ==
  /\ nworker.pc = "drain"
  /\ outgoing.queue # << >>
  /\ outgoing' = [outgoing EXCEPT !.queue = Tail(@)]
  /\ \E ok \in BOOLEAN :
       wire' = IF ok THEN Append(wire, Head(outgoing.queue)) ELSE wire
  /\ UNCHANGED <<cvars, pvars, ncall, nworker, nevents, nowner>>

\* The closed channel is empty: stream.flush().await.ok() and the task ends.
NwFlush ==
  /\ nworker.pc = "drain"
  /\ outgoing.queue = << >>
  /\ nworker' = [nworker EXCEPT !.pc = "exited", !.flushed = TRUE]
  /\ UNCHANGED <<cvars, pvars, ncall, nevents, outgoing, wire, nowner>>

\* NodeStreamHandle::report_slot_status / send_w3gs: tx.send(frame).await.ok();
\* on a closed channel the error is swallowed.
NhSend ==
  /\ nowner # "none"
  /\ outgoing.sends < MaxHandleSends
  /\ Len(outgoing.queue) < OutgoingCapacity
  /\ \E frame \in HandleFrames :
       outgoing' = IF outgoing.closed
                   THEN [outgoing EXCEPT !.sends = @ + 1]
                   ELSE [outgoing EXCEPT !.sends = @ + 1,
                                         !.queue = Append(@, frame)]
  /\ UNCHANGED <<cvars, pvars, ncall, nworker, nevents, wire, nowner>>

\* The NodeStream is dropped: its SpawnScope signals the worker.
NoDrop ==
  /\ nowner = "held"
  /\ nowner' = "dropped"
  /\ UNCHANGED <<cvars, pvars, ncall, nworker, nevents, outgoing, wire>>

NodeNext ==
  \/ NcConnect
  \/ NcSendClientConnect
  \/ NcRecvError
  \/ NcRecvReply
  \/ NwSendInitial
  \/ NwScopeLeft
  \/ NwRecvFrame
  \/ NwRecvError
  \/ NwW3gsSend
  \/ NwEventSend
  \/ NwOutgoing
  \/ NwDrain
  \/ NwFlush
  \/ NhSend
  \/ NoDrop

SpecNode == Init /\ [][NodeNext]_vars

\* The worker is a spawned task: a step it can take by itself is taken.  The
\* select! polls its ready arms in random order, so an arm that is ready
\* every time the worker comes back to the select is taken in the end; the
\* sends on the socket of the drain loop and the flush complete.  Nothing is
\* assumed of the receivers of w3gs_sender and event_sender: a send to them
\* completes when they take the value or are dropped, and may never do.
SpecNodeLive ==
  /\ SpecNode
  /\ SF_vars(NwScopeLeft)
  /\ WF_vars(NwDrain)
  /\ WF_vars(NwFlush)

----------------------------------------------------------------------------
(* PeerStream (crates/node/src/game/peer.rs) *)

PeerFrames == {"a", "b"}
NoFrame == "-"

\* The values of Poll<Option<Result<PeerMessage>>>.
PeerOutgoing(frame) == [kind |-> "Outgoing", frame |-> frame]
PeerIncoming(frame) == [kind |-> "Incoming", frame |-> frame]
PeerErr == [kind |-> "Err", frame |-> NoFrame]
PeerNone == [kind |-> "None", frame |-> NoFrame]
PeerPending == [kind |-> "Pending", frame |-> NoFrame]

\* What arrives on the socket: a frame, or an error of the stream.
SocketItems ==
  { [ok |-> TRUE, frame |-> f] : f \in PeerFrames }
    \cup { [ok |-> FALSE, frame |-> NoFrame] }

\* Pin::new(&mut self.stream).poll_next(cx)
socket_poll(sock) ==
  IF sock.avail # << >>
  THEN IF Head(sock.avail).ok THEN PeerIncoming(Head(sock.avail).frame) ELSE PeerErr
  ELSE IF sock.eof THEN PeerNone ELSE PeerPending

\* A poll_next that yields the error and leaves closed as it is.
poll_next_not_closing(p, sock) ==
  IF p.closed
  THEN [peer |-> p, taken |-> FALSE, ret |-> PeerNone]
  ELSE IF p.receiver # << >>
  THEN [peer |-> [p EXCEPT !.receiver = Tail(@)], taken |-> FALSE,
        ret |-> PeerOutgoing(Head(p.receiver))]
  ELSE [peer |-> p, taken |-> sock.avail # << >>, ret |-> socket_poll(sock)]

\* PeerStream::poll_next: the PeerStream after the poll, whether the socket
\* gave an item, and the value returned.
poll_next(p, sock) ==
  IF p.closed
  THEN [peer |-> p, taken |-> FALSE, ret |-> PeerNone]
  ELSE IF p.receiver # << >>
  THEN [peer |-> [p EXCEPT !.receiver = Tail(@)], taken |-> FALSE,
        ret |-> PeerOutgoing(Head(p.receiver))]
  ELSE [peer |-> [p EXCEPT !.closed = (socket_poll(sock) = PeerErr)],
        taken |-> sock.avail # << >>,
        ret |-> socket_poll(sock)]

\* The consumer polls the PeerStream.  A Pending poll changes nothing.
PsPollNext ==
  /\ Len(pitems) < MaxPeerPolls
  /\ LET r == poll_next(peer, psock) IN
     /\ peer' = r.peer
     /\ psock' = IF r.taken THEN [psock EXCEPT !.avail = Tail(@)] ELSE psock
     /\ pitems' = IF r.ret = PeerPending THEN pitems ELSE Append(pitems, r.ret)
  /\ UNCHANGED <<cvars, nvars, phandle>>

\* PeerHandle::send_frame: the send waits while the channel is full.
PhSendFrame ==
  /\ phandle.alive
  /\ phandle.sends < MaxPeerSends
  /\ Len(peer.receiver) < MaxPeerQueue
  /\ \E frame \in PeerFrames :
       peer' = [peer EXCEPT !.receiver = Append(@, frame)]
  /\ phandle' = [phandle EXCEPT !.sends = @ + 1]
  /\ UNCHANGED <<cvars, nvars, psock, pitems>>

\* The PeerHandle is dropped.
PhDrop ==
  /\ phandle.alive
  /\ phandle' = [phandle EXCEPT !.alive = FALSE]
  /\ UNCHANGED <<cvars, nvars, peer, psock, pitems>>

\* A frame or an error becomes ready on the socket.
PsArrive ==
  /\ ~psock.eof
  /\ psock.arrived < MaxPeerArrivals
  /\ \E item \in SocketItems :
       psock' = [psock EXCEPT !.avail = Append(@, item), !.arrived = @ + 1]
  /\ UNCHANGED <<cvars, nvars, peer, pitems, phandle>>

\* The remote end closes the socket.
PsEof ==
  /\ ~psock.eof
  /\ psock' = [psock EXCEPT !.eof = TRUE]
  /\ UNCHANGED <<cvars, nvars, peer, pitems, phandle>>

PeerNext ==
  \/ PsPollNext
  \/ PhSendFrame
  \/ PhDrop
  \/ PsArrive
  \/ PsEof

SpecPeer == Init /\ [][PeerNext]_vars

----------------------------------------------------------------------------
(* Properties of the stale-event handling (LobbyConn.id as an epoch) *)

\* The id of a Disconnected/ConnectionError is not that of the stored conn.
NotCurrentId(id) == conn = None \/ Unwrap(conn).id # id

\* A LobbyConn is stored and the id is that of another one.
ReplacedId(id) == IsSome(conn) /\ Unwrap(conn).id # id

DisconnectedForwards(w) ==
  { i \in 1..Len(w.out) : w.out[i] = OutEvent([type |-> "Disconnected"]) }

IsTerminal(evt) == evt.type \in {"Disconnected", "ConnectionError"}

\* C1: the remove_conn of a Disconnected(id) or ConnectionError(id, _) whose
\* id differs from the id of the LobbyConn stored in conn leaves conn as it
\* is: the current LobbyConn stays stored and its stream is not dropped.
C1_StaleIdKeepsConn ==
  [][ /\ (SwDisconnectedRemove /\ NotCurrentId(sw.evt.id))
          => (conn' = conn /\ stream' = stream)
      /\ (SwConnectionError /\ NotCurrentId(sw'.evt.id))
          => (conn' = conn /\ stream' = stream) ]_vars

\* C1 happens: a terminal event of conn 0 was handled while conn 1 was
\* stored, and conn 1 is still stored.
C1_Witness ==
  /\ IsTerminal(sw.evt) /\ sw.pc = "idle"
  /\ sw.evt.id = 0
  /\ sw.current_id = Some(1)
  /\ conn = Some(LobbyConn_new(1))

\* C2: every step of the handler of a Disconnected(id) or
\* ConnectionError(id, _) taken while a LobbyConn with another id is stored
\* leaves current_session and current_game_info unchanged.
C2_StaleIdKeepsSessionAndGameInfo ==
  [][ /\ (SwDisconnected /\ ReplacedId(sw'.evt.id))
          => UNCHANGED <<current_session, current_game_info>>
      /\ (SwDisconnectedRemove /\ ReplacedId(sw.evt.id))
          => UNCHANGED <<current_session, current_game_info>>
      /\ (SwConnectionError /\ ReplacedId(sw'.evt.id))
          => UNCHANGED <<current_session, current_game_info>> ]_vars

\* C3: a Disconnected(old_id) or ConnectionError(old_id, _) whose remove_conn
\* found a LobbyConn with another id forwards no ControllerEvent::Disconnected.
C3_StaleIdNotForwarded ==
  (/\ IsTerminal(sw.evt) /\ sw.pc = "idle"
   /\ IsSome(sw.current_id) /\ Unwrap(sw.current_id) # sw.evt.id)
  => DisconnectedForwards(sw) = {}

\* C4: the remove_conn of a Disconnected(id) with id the id of the stored
\* LobbyConn ends the handler with conn None and current_session None, and
\* the handler has forwarded exactly one ControllerEvent::Disconnected.
C4_CurrentDisconnectClears ==
  [][ (SwDisconnectedRemove /\ IsSome(conn) /\ Unwrap(conn).id = sw.evt.id)
      => /\ conn' = None
         /\ current_session' = None
         /\ sw'.pc = "idle"
         /\ Cardinality(DisconnectedForwards(sw')) = 1
         /\ Len(sw'.out) = 1 ]_vars

\* C4 happens: Disconnected(id) took the stored conn.
C4_Witness ==
  /\ sw.evt.type = "Disconnected" /\ sw.pc = "idle"
  /\ sw.removed = Some(TRUE)
  /\ sw.current_id = Some(sw.evt.id)
  /\ conn = None /\ current_session = None

\* C5: after the handler of a ConnectionError(id, _) that took the stored
\* LobbyConn (id = conn.id), current_session is None.
C5_ConnectionErrorClearsSession ==
  (sw.evt.type = "ConnectionError" /\ sw.pc = "idle" /\ sw.removed = Some(TRUE))
  => current_session = None

\* C6: in every reachable state a stored session comes with a stored
\* LobbyConn, that LobbyConn's stream is the one that delivered the session,
\* and that stream has authenticated and not terminated.
C6_SessionOnlyWithAuthenticatedConn ==
  IsSome(current_session)
  => /\ IsSome(conn)
     /\ session_src = Some(Unwrap(conn).id)
     /\ stream.phase = "session"

----------------------------------------------------------------------------
(* Properties of the session, game-start and ping handlers *)

\* C7: a PlayerSessionUpdate(Partial) handled while current_session is None
\* leaves current_session None and leaves conn and current_game_info as
\* they are.
C7_PartialWithoutSessionDropped ==
  [][ (SwSessionPartial /\ current_session = None)
      => /\ current_session' = None
         /\ UNCHANGED <<conn, current_game_info, id_counter>> ]_vars

\* C7 happens: a Partial was handled with no session and logged.
C7_Witness ==
  /\ sw.evt.type = "SessionPartial" /\ sw.pc = "idle"
  /\ sw.log = Some("no active player session")
  /\ current_session = None

GameStartFrames(w) ==
  { i \in 1..Len(w.out) :
      /\ w.out[i].chan = "frame"
      /\ w.out[i].frame.type = "GameStartPlayerClientInfoRequest" }

\* C8: while the handler of GameStarting{game_id} is past its guard, or has
\* enqueued a GameStartPlayerClientInfoRequest, current_game_info is Some
\* with that game_id; and handled with no game info or another game_id the
\* event sends nothing, ends at once and changes no state.
C8_StaleStartGuard ==
  /\ [](sw.evt.type = "GameStarting"
         => /\ (sw.pc # "idle" \/ GameStartFrames(sw) # {})
                => (/\ IsSome(current_game_info)
                    /\ Unwrap(current_game_info).game_id = sw.evt.game_id)
            /\ \A i \in GameStartFrames(sw) :
                 sw.out[i].frame.game_id = sw.evt.game_id)
  /\ [][ (/\ SwGameStarting
           /\ \/ current_game_info = None
              \/ Unwrap(current_game_info).game_id # sw'.evt.game_id)
          => /\ sw'.pc = "idle"
             /\ sw'.out = << >>
             /\ UNCHANGED <<shared, stream>> ]_vars

\* C8 happens: GameStarting for a game other than the cached one was handled
\* and sent nothing.
C8_Witness ==
  /\ sw.evt.type = "GameStarting" /\ sw.pc = "idle"
  /\ IsSome(current_game_info)
  /\ Unwrap(current_game_info).game_id # sw.evt.game_id
  /\ sw.out = << >>

PingFrames(w) == { i \in 1..Len(w.out) : w.out[i].chan = "frame" }

\* C9: the ping handler goes on to the lobby upload only when the ping is
\* Some, a LobbyConn is stored and its stream reports a game id; the frame
\* it enqueues goes to that LobbyConn's frame sender and carries that game
\* id and the one entry node_id -> ping.
C9_PingUploadGating ==
  /\ [][ (PwPingUpdate /\ pw'.pc = "frame_send")
          => /\ IsSome(pw'.evt.update.ping)
             /\ IsSome(conn)
             /\ IsSome(stream.game_id)
             /\ Unwrap(pw'.state).stream_state
                  = Some([game_id |-> Unwrap(stream.game_id),
                          frame_sender |-> Unwrap(conn).id]) ]_vars
  /\ [](pw.evt.type = "PingUpdate"
         => \A i \in PingFrames(pw) :
              /\ IsSome(pw.evt.update.ping)
              /\ IsSome(pw.state) /\ IsSome(Unwrap(pw.state).stream_state)
              /\ pw.out[i].to = Unwrap(Unwrap(pw.state).stream_state).frame_sender
              /\ pw.out[i].frame =
                   [type |-> "GamePlayerPingMapUpdateRequest",
                    game_id |-> Unwrap(Unwrap(pw.state).stream_state).game_id,
                    ping_map |-> [n \in {pw.evt.update.node_id} |->
                                   Unwrap(pw.evt.update.ping)]])

\* C9 happens: a succeeded ping was uploaded for the joined game.
C9_Witness ==
  /\ pw.evt.type = "PingUpdate" /\ pw.pc = "idle"
  /\ PingFrames(pw) # {}

PingForwards(w) ==
  { i \in 1..Len(w.out) :
      /\ w.out[i].chan = "ui"
      /\ w.out[i].msg = [type |-> "PingUpdate", update |-> w.evt.update] }

\* C10 as claimed: every PingUpdate the ping worker consumed has been
\* forwarded to the UI.
C10_EveryPingForwarded ==
  pw.evt.type = "PingUpdate" => PingForwards(pw) # {}

\* C10 amended: a PingUpdate consumed while a LobbyConn is stored is
\* forwarded, first thing and once, to that LobbyConn's UI sender, whatever
\* the ping and the game; one consumed while conn is None is dropped.
C10_PingForwardedIffConn ==
  [][ PwPingUpdate
      => /\ IsSome(conn)
            => /\ Len(pw'.out) = 1
               /\ pw'.out[1] = OutUi(Unwrap(conn).id,
                                     [type |-> "PingUpdate", update |-> pw'.evt.update])
         /\ conn = None => (pw'.out = << >> /\ pw'.pc = "idle") ]_vars

\* C10 happens: a failed ping was forwarded to the UI with no game joined.
C10_Witness ==
  /\ pw.evt.type = "PingUpdate" /\ pw.pc = "idle"
  /\ pw.evt.update.ping = None
  /\ IsSome(pw.state) /\ Unwrap(pw.state).stream_state = None
  /\ PingForwards(pw) # {}

----------------------------------------------------------------------------
(* Further properties of the controller, under Spec *)

\* C14: every ConnectLobby stores a LobbyConn with a fresh id.  The ids
\* start at 0: nothing is stored while the counter is 0, and a ConnectLobby
\* stores the LobbyConn whose id is the counter's value and advances the
\* counter by one.  The counter never goes back and every stored id is below
\* it, so the new id is above every id allocated before, and above the id
\* of the LobbyConn it replaces, which is no longer stored; the stream of
\* the cell is the new LobbyConn's, just created.
C14_FreshConnIds ==
  /\ [](id_counter = 0 => conn = None)
  /\ [](IsSome(conn) => Unwrap(conn).id < id_counter)
  /\ [][ id_counter' >= id_counter ]_vars
  /\ [][ WsConnectLobby
         => /\ conn' = Some([id |-> id_counter])
            /\ id_counter' = id_counter + 1
            /\ IsSome(conn) => Unwrap(conn').id > Unwrap(conn).id
            /\ stream' = [phase |-> "connecting", game_id |-> None] ]_vars

\* C14 happens: a second ConnectLobby replaced LobbyConn 0 by LobbyConn 1.
C14_Witness ==
  /\ ws.evt.type = "ConnectLobby"
  /\ conn = Some([id |-> 1])
  /\ id_counter = 2

\* C15: send_frame_or_disconnect_ws for a LobbyFrame(f).  The senders are
\* those of the LobbyConn stored when the handler reads conn.  With no conn
\* the frame is discarded and nothing is sent.  With a conn, f is sent on
\* that LobbyConn's frame sender; when the send succeeded nothing else is
\* sent, and when it failed one Disconnect with reason Unknown is sent to
\* that LobbyConn's UI sender.  No step of the handler changes conn,
\* current_session or current_game_info.
C15_SendFrameOrDisconnectWs ==
  /\ [][ WsLobbyFrame
         => /\ ws'.senders = IF IsSome(conn) THEN Some(Unwrap(conn).id) ELSE None
            /\ ws'.out = << >>
            /\ ws'.pc = IF IsSome(conn) THEN "sfd_send" ELSE "idle" ]_vars
  /\ [][ (ws'.evt.type = "LobbyFrame" /\ ws' # ws)
         => UNCHANGED <<conn, current_session, current_game_info>> ]_vars
  /\ []((ws.evt.type = "LobbyFrame" /\ ws.pc = "idle")
         => IF ws.senders = None
            THEN ws.out = << >>
            ELSE /\ Len(ws.out) >= 1
                 /\ ws.out[1] = OutFrame(Unwrap(ws.senders), ws.evt.frame, ws.out[1].ok)
                 /\ ws.out[1].ok => Len(ws.out) = 1
                 /\ ~ws.out[1].ok
                    => ws.out = <<ws.out[1],
                                  OutUi(Unwrap(ws.senders), DisconnectUnknown)>>)

\* C15 happens: the send of a LobbyFrame failed and the UI was told.
C15_Witness ==
  /\ ws.evt.type = "LobbyFrame" /\ ws.pc = "idle"
  /\ Len(ws.out) = 2
  /\ ~ws.out[1].ok

\* C16: a GameStarted(evt) is forwarded outward, as GameStarted(evt, gi),
\* exactly when current_game_info holds some gi as the handler reads it, and
\* with that gi; when the cell is None nothing is sent.  The handler changes
\* none of conn, current_session, current_game_info.
C16_GameStartedForwardedIffGameInfo ==
  [][ SwGameStarted
      => /\ IsSome(current_game_info)
            => sw'.out = <<OutEvent([type |-> "GameStarted", evt |-> sw'.evt,
                                     game_info |-> Unwrap(current_game_info)])>>
         /\ current_game_info = None => sw'.out = << >>
         /\ UNCHANGED <<conn, current_session, current_game_info>> ]_vars

\* C16 happens: a GameStarted was forwarded with the cached game 10.
C16_Witness ==
  /\ sw.evt.type = "GameStarted"
  /\ sw.out = <<OutEvent([type |-> "GameStarted", evt |-> sw.evt,
                          game_info |-> [game_id |-> 10]])>>

\* C17: current_game_info changes only in the handler of GameInfoUpdate.
\* That handler stores the event's game_info, Some or None, and forwards a
\* GameInfoUpdate with the same value.
C17_GameInfoOnlyByUpdate ==
  /\ [][ current_game_info' # current_game_info
         => (sw.pc = "idle" /\ sw'.pc = "idle" /\ sw'.evt.type = "GameInfoUpdate") ]_vars
  /\ [][ SwGameInfoUpdate
         => /\ current_game_info' = sw'.evt.game_info
            /\ sw'.out = <<OutEvent([type |-> "GameInfoUpdate",
                                     game_info |-> sw'.evt.game_info])>> ]_vars

\* C17 happens: a GameInfoUpdate(None) was handled and the cell holds None.
C17_Witness ==
  /\ sw.evt = [type |-> "GameInfoUpdate", game_info |-> None]
  /\ sw.pc = "idle"
  /\ current_game_info = None
  /\ IsSome(current_session)

FailedPingFrames(w) == { i \in PingFrames(w) : ~w.out[i].ok }

\* C18 as claimed: when the upload of a ping failed, a Disconnect with
\* reason Unknown was sent to the UI sender of the handler's LobbyConn.
C18_UploadFailureDisconnectsUi ==
  (pw.evt.type = "PingUpdate" /\ pw.pc = "idle" /\ FailedPingFrames(pw) # {})
  => \E j \in 1..Len(pw.out) :
       pw.out[j] = OutUi(Unwrap(pw.state).ws_sender, DisconnectUnknown)

\* C18 amended: the upload is a send on the frame sender of the handler's
\* snapshot, and its failure ends the handler: what the handler sent is the
\* PingUpdate to the UI and the frame, and no Disconnect.
C18_UploadFailureOnlyLogged ==
  /\ pw.evt.type = "PingUpdate"
     => \A j \in 1..Len(pw.out) :
          pw.out[j].chan = "ui" => pw.out[j].msg.type = "PingUpdate"
  /\ (pw.evt.type = "PingUpdate" /\ FailedPingFrames(pw) # {})
     => /\ pw.pc = "idle"
        /\ Len(pw.out) = 2
        /\ pw.out[1] = OutUi(Unwrap(pw.state).ws_sender,
                             [type |-> "PingUpdate", update |-> pw.evt.update])
        /\ FailedPingFrames(pw) = {2}

\* C18 happens: the upload of a succeeded ping failed.
C18_Witness ==
  /\ pw.evt.type = "PingUpdate" /\ pw.pc = "idle"
  /\ FailedPingFrames(pw) # {}

\* C19: a Partial handled while current_session holds a session sets that
\* session's game_id and status to the update's and leaves player_id and
\* player_name as they were; a Full replaces the session by the event's.
C19_PartialAndFull ==
  /\ [][ (SwSessionPartial /\ IsSome(current_session))
         => current_session' =
              Some([player_id |-> Unwrap(current_session).player_id,
                    player_name |-> Unwrap(current_session).player_name,
                    game_id |-> sw'.evt.update.game_id,
                    status |-> sw'.evt.update.status]) ]_vars
  /\ [][ SwSessionFull => current_session' = Some(sw'.evt.session) ]_vars

\* C19 happens: a Partial moved player 7, idle and in no game, into game 10.
C19_Witness ==
  /\ sw.evt = [type |-> "SessionPartial",
               update |-> [game_id |-> Some(10), status |-> "InGame"]]
  /\ current_session = Some([player_id |-> 7, player_name |-> "p7",
                             game_id |-> Some(10), status |-> "InGame"])

\* C20: no worker holds a guard on conn, current_session or
\* current_game_info where it is suspended: between two events, on a send
\* of send_frame_or_disconnect_ws or of the ping upload, on with_storage,
\* before remove_conn.  So each cell can be read and written by the other
\* workers and by the handle's readers whatever the suspended worker waits
\* for.
C20_NoGuardAcrossAwait ==
  /\ ws.held = {} /\ sw.held = {} /\ pw.held = {}
  /\ \A cell \in Cells : CanRead(cell) /\ CanWrite(cell)

\* C20 happens: the ws worker is suspended on the frame send with the
\* senders it cloned from conn, and the stream worker has emptied conn
\* meanwhile; the ping worker too is suspended on its upload.
C20_Witness ==
  /\ ws.pc = "sfd_send" /\ IsSome(ws.senders)
  /\ conn = None
  /\ pw.pc = "frame_send"

\* C22: a failure of the local environment abandons the game start.  When
\* GameStarting passes the guard and the platform has no game version, or
\* when with_storage fails to open or checksum the map, the handler ends
\* there: it has sent no frame, no Disconnect to the UI and no outward
\* event, it leaves conn, current_session and current_game_info as they
\* were, and the stream-event worker is back at its recv.
C22_LocalEnvironmentFailureAbandons ==
  /\ [][ (/\ SwGameStarting
          /\ IsSome(current_game_info)
          /\ Unwrap(current_game_info).game_id = sw'.evt.game_id
          /\ sw'.version = None)
         => /\ sw'.pc = "idle" /\ sw'.out = << >> /\ sw'.frame = None
            /\ sw'.log = Some("get client info: War3NotLocated")
            /\ UNCHANGED <<conn, current_session, current_game_info>> ]_vars
  /\ [][ (sw.pc = "with_storage" /\ sw'.storage = Some(None))
         => /\ sw'.pc = "idle" /\ sw'.out = << >> /\ sw'.frame = None
            /\ sw'.log = Some("get client info: map")
            /\ UNCHANGED <<conn, current_session, current_game_info>> ]_vars
  /\ []((sw.evt.type = "GameStarting" /\ sw.storage = Some(None))
         => (sw.pc = "idle" /\ sw.out = << >>))
  /\ []((sw.evt.type = "GameStarting"
          /\ sw.log = Some("get client info: War3NotLocated"))
         => (sw.pc = "idle" /\ sw.out = << >> /\ sw.storage = None))

\* C22 happens: the map of the cached game could not be opened, with a
\* LobbyConn stored.
C22_Witness ==
  /\ sw.evt.type = "GameStarting" /\ sw.pc = "idle"
  /\ sw.storage = Some(None)
  /\ IsSome(conn) /\ IsSome(current_session)

\* C23: the GameStartPlayerClientInfoRequest of a GameStarting is sent only
\* on the frame sender of the LobbyConn that was stored when the handling of
\* that GameStarting began, also when a ConnectLobby replaces conn while the
\* checksum of the map is computed.
C23_StartFrameOnStartingConn ==
  sw.evt.type = "GameStarting"
  => \A i \in GameStartFrames(sw) : sw.out[i].to = sw.evt.from

----------------------------------------------------------------------------
(* Properties of the NodeStream, under SpecNode *)

\* C11: once the worker of a connected NodeStream is past its first send,
\* the first NodeStreamEvent is GameInitialStatus with the snapshot of the
\* accept, and no later event is a GameInitialStatus: it is sent once and
\* before any GameStatusUpdate, SlotClientStatusUpdate or Disconnected.
C11_InitialStatusFirstAndOnce ==
  /\ nworker.pc \notin {"unspawned", "initial"} => Len(nevents) >= 1
  /\ nevents # << >>
     => /\ nevents[1] = [type |-> "GameInitialStatus",
                         status |-> Unwrap(nworker.initial_status)]
        /\ \A i \in 2..Len(nevents) : nevents[i].type # "GameInitialStatus"

\* C11 happens: a GameStatusUpdate was sent after the initial status.
C11_Witness ==
  /\ Len(nevents) >= 2
  /\ nevents[2].type = "GameStatusUpdate"

\* C12: a Disconnected is the last NodeStreamEvent of its stream: no event,
\* and so no second Disconnected, follows it.
C12_NothingAfterDisconnected ==
  \A i \in 1..(Len(nevents) - 1) : nevents[i].type # "Disconnected"

\* C13: when the node answered ClientConnect with ClientConnectReject,
\* connect has returned NodeConnectionRejected(reason, message) of that
\* frame, no worker was spawned, no NodeStream exists and no NodeStreamEvent
\* has been sent.
C13_RejectedConnect ==
  (IsSome(ncall.reply) /\ Unwrap(ncall.reply).type = "ClientConnectReject")
  => /\ ncall.pc = "returned"
     /\ ncall.result =
          Some([ok |-> FALSE,
                err |-> [kind |-> "NodeConnectionRejected",
                         reason |-> Unwrap(ncall.reply).reason,
                         message |-> Unwrap(ncall.reply).message]])
     /\ nworker.pc = "unspawned"
     /\ nowner = "none"
     /\ nevents = << >>

\* C13 happens: the node rejected with TokenInvalid, "bad".
C13_Witness ==
  /\ ncall.pc = "returned"
  /\ ncall.reply = Some([type |-> "ClientConnectReject", reason |-> "TokenInvalid",
                         message |-> "bad"])

\* The worker is suspended in a send downstream: the GameInitialStatus
\* before the loop, a W3GS packet, or an event of the loop.
InDownstreamSend == nworker.pc \in {"initial", "w3gs_send", "event_send"}

----------------------------------------------------------------------------
(* Properties of the PeerStream, under SpecPeer *)

\* C24: once poll_next has yielded an Err, closed is set and every later
\* poll has returned Ready(None): nothing Outgoing or Incoming follows the
\* error, whatever is queued on the channel; closed is set by nothing else.
\* While closed is not set, a poll with a frame queued on the channel yields
\* that frame as Outgoing and leaves the socket alone, whatever the socket
\* has ready.
C24_PeerStreamTermination ==
  /\ [](\A i \in 1..Len(pitems) :
          pitems[i].kind = "Err"
          => /\ peer.closed
             /\ \A j \in (i + 1)..Len(pitems) : pitems[j] = PeerNone)
  /\ [](peer.closed => \E i \in 1..Len(pitems) : pitems[i].kind = "Err")
  /\ [][ (pitems' # pitems /\ ~peer.closed /\ peer.receiver # << >>)
         => /\ pitems' = Append(pitems, PeerOutgoing(Head(peer.receiver)))
            /\ peer'.receiver = Tail(peer.receiver)
            /\ psock' = psock ]_vars

\* C24 happens: an error was yielded, a frame was queued after it, and the
\* next poll returned Ready(None).
C24_Witness ==
  /\ Len(pitems) >= 2
  /\ pitems[Len(pitems) - 1] = PeerErr
  /\ pitems[Len(pitems)] = PeerNone
  /\ peer.receiver # << >>

====
